---- MODULE Spec2Model ----
(***************************************************************************)
(* Model of the bert-studio backend (src/backend/main.py): the in-memory   *)
(* model registry (downloaded_models, loaded_models, loaded_tokenizers,    *)
(* loading_models, stats_store), the background download and load units,   *)
(* the download / load / delete request handlers, the code admission       *)
(* checker and the custom-task gateway.                                    *)
(*                                                                         *)
(* Conventions: a step of a background unit is one backend call together   *)
(* with the registry writes that follow it (the writes of an except-branch *)
(* are one step); sizes and dates are left out, the age of a loading       *)
(* status entry is kept as a flag; a code fragment is its text (what the   *)
(* admission checker reads) and, separately, its effect when run by exec.  *)
(***************************************************************************)
EXTENDS Integers, Sequences, FiniteSets, Bags, TLC

\* ------------------------------------------------------------------------
\* Bounds of the model
\* ------------------------------------------------------------------------

\* number of files the hub lists for a repository (len(files))
NumFiles == 2

\* number of background units scheduled in one run
MaxUnits == 2

\* model identifiers the requests draw from ("author/model" form)
Ids == {"a/m1", "a/m2"}

\* a request body may also carry the empty string as model_id
RequestIds == Ids \cup {""}

VARIABLES
    downloaded_models,   \* dict: model id -> download entry
    loaded_models,       \* dict keys: ids with a model handle
    loaded_tokenizers,   \* dict keys: ids with a tokenizer handle
    loading_models,      \* dict: model id -> loading status entry
    stats_store,         \* stats_store["loaded_models"]
    cache,               \* ids present in the HuggingFace cache (scan_cache_dir)
    units,               \* bag of the background tasks in flight
    scheduled,           \* number of background tasks scheduled so far
    response,            \* the answer given by the last step (NoResponse after a task's step)
    evicted,             \* history: ids deleted while a task for them was in flight
    observe,             \* whether the run records response and evicted
    adm_code,            \* admission checker: the fragment under check
    adm_type,            \* admission checker: its code_type
    adm_result,          \* admission checker: what the check returned or raised
    gw_pc,               \* gateway: position in the custom-task handler
    gw_request,          \* gateway: the request being handled
    restricted_globals,  \* gateway: names bound in the execution namespace
    exec_calls,          \* gateway: exec() calls made for the request
    fn_calls,            \* gateway: custom_function calls made for the request
    exec_log,            \* gateway: the code_types of the exec() calls, in order
    fn_args,             \* gateway: the arguments of the custom_function calls, in order
    visible,             \* gateway: names the fragment of the last exec() could resolve
    builtins,            \* names of the builtins module of the server process
    gw_response,         \* gateway: the answer of the request
    tasks_collection,    \* task store: ObjectId -> stored document
    inserted,            \* task store: number of ObjectIds generated so far
    now,                 \* the clock read by datetime.now()
    task_response        \* the answer of the last saved-task request

lifecycleVars == <<downloaded_models, loaded_models, loaded_tokenizers,
                   loading_models, stats_store, cache, units, scheduled, response, evicted, observe>>

admissionVars == <<adm_code, adm_type, adm_result>>

gatewayVars == <<gw_pc, gw_request, restricted_globals, exec_calls, fn_calls, exec_log,
                 fn_args, visible, builtins, gw_response>>

taskVars == <<tasks_collection, inserted, now, task_response>>

vars == <<lifecycleVars, admissionVars, gatewayVars, taskVars>>

\* ------------------------------------------------------------------------
\* Python dict operations
\* ------------------------------------------------------------------------

\* d[k] = v
DictSet(d, k, v) == [x \in (DOMAIN d) \cup {k} |-> IF x = k THEN v ELSE d[x]]

\* del d[k]
DictDel(d, k) == [x \in (DOMAIN d) \ {k} |-> d[x]]

EmptyDict == [x \in {} |-> 0]

\* int((files_downloaded / total_files) * 100)
Progress(files_downloaded, total_files) == (files_downloaded * 100) \div total_files

NoResponse == [op |-> "none", id |-> "", code |-> 0, message |-> "none"]

Answer(op, id, code, message) == [op |-> op, id |-> id, code |-> code, message |-> message]

\* the handler returns r; the answer is recorded in an observed run
Reply(r) == response' = IF observe THEN r ELSE NoResponse

\* the history of evictions becomes S in an observed run
Evicted(S) == evicted' = IF observe THEN S ELSE {}

\* ------------------------------------------------------------------------
\* Background units
\* ------------------------------------------------------------------------

\* background_tasks.add_task(task, model_id): the task runs after the response
NewUnit(kind, id) == [kind |-> kind, id |-> id, pc |-> "pending", idx |-> 0, files_downloaded |-> 0]

Schedule(kind, id) ==
    /\ scheduled < MaxUnits
    /\ units' = units (+) SetToBag({NewUnit(kind, id)})
    /\ scheduled' = scheduled + 1
    /\ Evicted(evicted \ {id})

\* the task u moves on as v
Continue(u, v) == units' = (units (-) SetToBag({u})) (+) SetToBag({v})

\* the task u returns
Return(u) == units' = units (-) SetToBag({u})

\* the tasks of a kind scheduled for id that have not returned yet
UnitsInFlight(kind, id) == [u \in {x \in DOMAIN units : x.kind = kind /\ x.id = id} |-> units[u]]

NumInFlight(id) == BagCardinality(UnitsInFlight("download", id)) + BagCardinality(UnitsInFlight("load", id))

\* except-branch of _download_model_task
DownloadFailed(dm, id) ==
    IF id \in DOMAIN dm
    THEN [dm EXCEPT ![id].status = "failed", ![id].progress = 0]
    ELSE dm

\* api.list_repo_files, then the initial 'downloading' entry
DownloadStart(u) ==
    /\ u.kind = "download"
    /\ u.pc = "pending"
    /\ \E ok \in BOOLEAN :
        IF ok
        THEN /\ downloaded_models' = DictSet(downloaded_models, u.id,
                    [status |-> "downloading", progress |-> 0, files_downloaded |-> 0,
                     total_files |-> NumFiles])
             /\ Continue(u, [u EXCEPT !.pc = "files"])
        ELSE /\ downloaded_models' = DownloadFailed(downloaded_models, u.id)
             /\ Return(u)
    /\ UNCHANGED <<loaded_models, loaded_tokenizers, loading_models, stats_store, cache, scheduled, evicted, observe>>
    /\ response' = NoResponse

\* one iteration of the per-file loop: hf_hub_download, then the progress writes
DownloadFile(u) ==
    /\ u.kind = "download"
    /\ u.pc = "files"
    /\ u.idx < NumFiles
    /\ LET id == u.id
           n  == u.files_downloaded + 1
       IN \E ok \in BOOLEAN :
            IF ~ok
            THEN \* the file failed: continue
                 /\ Continue(u, [u EXCEPT !.idx = @ + 1])
                 /\ UNCHANGED <<downloaded_models, cache>>
            ELSE /\ cache' = cache \cup {id}
                 /\ IF id \in DOMAIN downloaded_models
                    THEN /\ downloaded_models' =
                                [downloaded_models EXCEPT ![id].progress = Progress(n, NumFiles),
                                                          ![id].files_downloaded = n]
                         /\ Continue(u, [u EXCEPT !.idx = @ + 1, !.files_downloaded = n])
                    ELSE \* KeyError: the except-branch finds no entry
                         /\ downloaded_models' = downloaded_models
                         /\ Return(u)
    /\ UNCHANGED <<loaded_models, loaded_tokenizers, loading_models, stats_store, scheduled, evicted, observe>>
    /\ response' = NoResponse

\* downloaded_models[model_id].update({"status": "completed", ...})
DownloadComplete(u) ==
    /\ u.kind = "download"
    /\ u.pc = "files"
    /\ u.idx = NumFiles
    /\ LET id == u.id
       IN IF id \in DOMAIN downloaded_models
          THEN /\ downloaded_models' =
                      [downloaded_models EXCEPT ![id].status = "completed",
                                                ![id].progress = 100,
                                                ![id].files_downloaded = downloaded_models[id].total_files]
               /\ Continue(u, [u EXCEPT !.pc = "from_pretrained"])
          ELSE /\ downloaded_models' = downloaded_models
               /\ Return(u)
    /\ UNCHANGED <<loaded_models, loaded_tokenizers, loading_models, stats_store, cache, scheduled, evicted, observe>>
    /\ response' = NoResponse

\* AutoTokenizer.from_pretrained and AutoModel.from_pretrained after the download
DownloadFromPretrained(u) ==
    /\ u.kind = "download"
    /\ u.pc = "from_pretrained"
    /\ \E ok \in BOOLEAN :
        IF ok
        THEN /\ cache' = cache \cup {u.id}
             /\ Continue(u, [u EXCEPT !.pc = "store"])
             /\ UNCHANGED downloaded_models
        ELSE /\ downloaded_models' = DownloadFailed(downloaded_models, u.id)
             /\ Return(u)
             /\ UNCHANGED cache
    /\ UNCHANGED <<loaded_models, loaded_tokenizers, loading_models, stats_store, scheduled, evicted, observe>>
    /\ response' = NoResponse

\* if model_id not in loaded_models: store both handles and count the model
DownloadStore(u) ==
    /\ u.kind = "download"
    /\ u.pc = "store"
    /\ IF u.id \notin loaded_models
       THEN /\ loaded_models' = loaded_models \cup {u.id}
            /\ loaded_tokenizers' = loaded_tokenizers \cup {u.id}
            /\ stats_store' = [stats_store EXCEPT !.loaded_models = @ + 1]
       ELSE UNCHANGED <<loaded_models, loaded_tokenizers, stats_store>>
    /\ Return(u)
    /\ UNCHANGED <<downloaded_models, loading_models, cache, scheduled, evicted, observe>>
    /\ response' = NoResponse

\* except-branch of _load_model_task: the status entry
LoadFailed(lm, id, error_msg) ==
    IF id \in DOMAIN lm
    THEN [lm EXCEPT ![id].status = "failed", ![id].progress = 0, ![id].error_message = error_msg]
    ELSE lm

\* loading_models[model_id] = {"status": "loading", ...}; progress = 25.
\* The 'timestamp' of an entry is kept as the field old: whether more than an
\* hour has passed since the timestamp was written.
LoadStart(u) ==
    /\ u.kind = "load"
    /\ u.pc = "pending"
    /\ loading_models' = DictSet(loading_models, u.id,
            [status |-> "loading", progress |-> 25, error_message |-> "None", old |-> FALSE])
    /\ Continue(u, [u EXCEPT !.pc = "tokenizer"])
    /\ UNCHANGED <<downloaded_models, loaded_models, loaded_tokenizers, stats_store, cache, scheduled, evicted, observe>>
    /\ response' = NoResponse

\* AutoTokenizer.from_pretrained(model_id); progress = 75
LoadTokenizer(u) ==
    /\ u.kind = "load"
    /\ u.pc = "tokenizer"
    /\ LET id == u.id
       IN \E ok \in BOOLEAN :
            IF ok /\ id \in DOMAIN loading_models
            THEN /\ loading_models' = [loading_models EXCEPT ![id].progress = 75]
                 /\ cache' = cache \cup {id}
                 /\ Continue(u, [u EXCEPT !.pc = "model"])
                 /\ UNCHANGED <<loaded_models, loaded_tokenizers>>
            ELSE \* the backend failed, or KeyError on the progress write
                 /\ loading_models' = LoadFailed(loading_models, id, "tokenizer load failed")
                 /\ loaded_models' = loaded_models \ {id}
                 /\ loaded_tokenizers' = loaded_tokenizers \ {id}
                 /\ cache' = IF ok THEN cache \cup {id} ELSE cache
                 /\ Return(u)
    /\ UNCHANGED <<downloaded_models, stats_store, scheduled, evicted, observe>>
    /\ response' = NoResponse

\* AutoModel.from_pretrained(model_id), then the handles are stored and counted
LoadModel(u) ==
    /\ u.kind = "load"
    /\ u.pc = "model"
    /\ LET id == u.id
       IN \E ok \in BOOLEAN :
            IF ok
            THEN /\ loaded_models' = loaded_models \cup {id}
                 /\ loaded_tokenizers' = loaded_tokenizers \cup {id}
                 /\ stats_store' = [stats_store EXCEPT !.loaded_models = @ + 1]
                 /\ cache' = cache \cup {id}
                 /\ Continue(u, [u EXCEPT !.pc = "finish"])
                 /\ UNCHANGED loading_models
            ELSE /\ loading_models' = LoadFailed(loading_models, id, "model load failed")
                 /\ loaded_models' = loaded_models \ {id}
                 /\ loaded_tokenizers' = loaded_tokenizers \ {id}
                 /\ Return(u)
                 /\ UNCHANGED <<cache, stats_store>>
    /\ UNCHANGED <<downloaded_models, scheduled, evicted, observe>>
    /\ response' = NoResponse

\* loading_models[model_id].update({"status": "completed", "progress": 100, ...})
LoadFinish(u) ==
    /\ u.kind = "load"
    /\ u.pc = "finish"
    /\ LET id == u.id
       IN IF id \in DOMAIN loading_models
          THEN /\ loading_models' = [loading_models EXCEPT ![id].status = "completed",
                                                           ![id].progress = 100,
                                                           ![id].old = FALSE]
               /\ UNCHANGED <<loaded_models, loaded_tokenizers>>
          ELSE \* KeyError: the except-branch removes the handles
               /\ loading_models' = loading_models
               /\ loaded_models' = loaded_models \ {id}
               /\ loaded_tokenizers' = loaded_tokenizers \ {id}
    /\ Return(u)
    /\ UNCHANGED <<downloaded_models, stats_store, cache, scheduled, evicted, observe>>
    /\ response' = NoResponse

\* ------------------------------------------------------------------------
\* Request handlers
\* ------------------------------------------------------------------------

\* more than an hour passes: every timestamp written so far is older than 3600 s
Tick ==
    /\ \E id \in DOMAIN loading_models : ~loading_models[id].old
    /\ loading_models' = [id \in DOMAIN loading_models |-> [loading_models[id] EXCEPT !.old = TRUE]]
    /\ UNCHANGED <<downloaded_models, loaded_models, loaded_tokenizers, stats_store, cache,
                   units, scheduled, evicted, observe>>
    /\ response' = NoResponse

\* a pass that removes every entry older than an hour, whatever its status
cleanup_every_old_entry(lm) ==
    LET to_remove == {id \in DOMAIN lm : lm[id].old}
    IN  [id \in (DOMAIN lm) \ to_remove |-> lm[id]]

\* _cleanup_loading_status(): the 'completed' and 'failed' entries older than
\* an hour are removed
cleanup_loading_status(lm) ==
    LET to_remove == {id \in DOMAIN lm : lm[id].status \in {"completed", "failed"} /\ lm[id].old}
    IN  [id \in (DOMAIN lm) \ to_remove |-> lm[id]]

\* GET /
read_root ==
    /\ loading_models' = cleanup_loading_status(loading_models)
    /\ Reply(Answer("root", "", 200, "Backend is running!"))
    /\ UNCHANGED <<downloaded_models, loaded_models, loaded_tokenizers, stats_store, cache,
                   units, scheduled, evicted, observe>>

\* POST /models/download
download_model(model_id) ==
    IF model_id = ""
    THEN /\ Reply(Answer("download", model_id, 400, "model_id must be a non-empty string"))
         /\ UNCHANGED <<units, scheduled, evicted>>
    ELSE IF /\ model_id \in DOMAIN downloaded_models
            /\ downloaded_models[model_id].status \in {"completed", "downloading"}
    THEN /\ Reply(Answer("download", model_id, 200, "already downloaded or is downloading"))
         /\ UNCHANGED <<units, scheduled, evicted>>
    ELSE /\ Schedule("download", model_id)
         /\ Reply(Answer("download", model_id, 200, "Started downloading"))

DownloadRequest(model_id) ==
    /\ download_model(model_id)
    /\ UNCHANGED <<downloaded_models, loaded_models, loaded_tokenizers, loading_models,
                   stats_store, cache, observe>>

\* POST /models/load
load_model(model_id) ==
    LET in_downloaded == /\ model_id \in DOMAIN downloaded_models
                         /\ downloaded_models[model_id].status = "completed"
        in_cache      == ~in_downloaded /\ model_id \in cache
    IN  IF model_id = ""
        THEN /\ Reply(Answer("load", model_id, 400, "model_id must be a non-empty string"))
             /\ UNCHANGED <<units, scheduled, evicted>>
        ELSE IF model_id \in loaded_models /\ model_id \in loaded_tokenizers
        THEN /\ Reply(Answer("load", model_id, 200, "is already loaded"))
             /\ UNCHANGED <<units, scheduled, evicted>>
        ELSE IF /\ model_id \in DOMAIN loading_models
                /\ loading_models[model_id].status = "loading"
        THEN /\ Reply(Answer("load", model_id, 200, "is already being loaded"))
             /\ UNCHANGED <<units, scheduled, evicted>>
        ELSE IF ~in_downloaded /\ ~in_cache
        THEN /\ Reply(Answer("load", model_id, 400,
                                  "Model is not downloaded, not ready, and not found in cache."))
             /\ UNCHANGED <<units, scheduled, evicted>>
        ELSE /\ Schedule("load", model_id)
             /\ Reply(Answer("load", model_id, 200, "Started loading"))

LoadRequest(model_id) ==
    /\ load_model(model_id)
    /\ UNCHANGED <<downloaded_models, loaded_models, loaded_tokenizers, loading_models,
                   stats_store, cache, observe>>

\* a delete that drops the handles of every id
delete_dropping_all_handles(model_id) ==
    \E scan_ok \in BOOLEAN :
        LET in_memory_deleted == model_id \in DOMAIN downloaded_models
            cache_deleted     == scan_ok /\ model_id \in cache
        IN  /\ downloaded_models' = DictDel(downloaded_models, model_id)
            /\ loaded_models' = {}
            /\ loaded_tokenizers' = {}
            /\ stats_store' = IF in_memory_deleted
                              THEN [stats_store EXCEPT !.loaded_models =
                                        IF @ - 1 > 0 THEN @ - 1 ELSE 0]
                              ELSE stats_store
            /\ cache' = IF cache_deleted THEN cache \ {model_id} ELSE cache
            /\ Reply(IF in_memory_deleted \/ cache_deleted
                     THEN Answer("delete", model_id, 200, "Deleted")
                     ELSE Answer("delete", model_id, 404, "Model not found in memory or cache"))

\* DELETE /models/downloaded. scan_ok: scan_cache_dir and the deletion of the
\* revisions did not raise; a failure is printed and leaves the cache as it is.
delete_downloaded_model(model_id) ==
    \E scan_ok \in BOOLEAN :
        LET in_memory_deleted == model_id \in DOMAIN downloaded_models
            cache_deleted     == scan_ok /\ model_id \in cache
        IN  /\ downloaded_models' = DictDel(downloaded_models, model_id)
            /\ loaded_models' = loaded_models \ {model_id}
            /\ loaded_tokenizers' = loaded_tokenizers \ {model_id}
            /\ stats_store' = IF in_memory_deleted
                              THEN [stats_store EXCEPT !.loaded_models =
                                        IF @ - 1 > 0 THEN @ - 1 ELSE 0]
                              ELSE stats_store
            /\ cache' = IF cache_deleted THEN cache \ {model_id} ELSE cache
            /\ Reply(IF in_memory_deleted \/ cache_deleted
                     THEN Answer("delete", model_id, 200, "Deleted")
                     ELSE Answer("delete", model_id, 404, "Model not found in memory or cache"))

DeleteRequest(model_id) ==
    /\ delete_downloaded_model(model_id)
    /\ Evicted(IF NumInFlight(model_id) > 0 THEN evicted \cup {model_id} ELSE evicted)
    /\ UNCHANGED <<loading_models, units, scheduled, observe>>


\* ------------------------------------------------------------------------
\* Code admission checker
\* ------------------------------------------------------------------------
\* Source text is a sequence of characters (one-character strings).

UpperCaseLetters == <<"A", "B", "C", "D", "E", "F", "G", "H", "I", "J", "K", "L", "M", "N", "O", "P", "Q", "R", "S", "T", "U", "V", "W", "X", "Y", "Z">>

LowerCaseLetters == <<"a", "b", "c", "d", "e", "f", "g", "h", "i", "j", "k", "l", "m", "n", "o", "p", "q", "r", "s", "t", "u", "v", "w", "x", "y", "z">>

\* str.lower() on one character
LowerChar(c) ==
    IF \E i \in DOMAIN UpperCaseLetters : UpperCaseLetters[i] = c
    THEN LowerCaseLetters[CHOOSE i \in DOMAIN UpperCaseLetters : UpperCaseLetters[i] = c]
    ELSE c

\* code.lower()
Lower(code) == [i \in DOMAIN code |-> LowerChar(code[i])]

\* sub in text
Contains(sub, text) ==
    \E i \in 0..(Len(text) - Len(sub)) : SubSeq(text, i + 1, i + Len(sub)) = sub

disallowed_imports == <<
    <<"i", "m", "p", "o", "r", "t", " ", "o", "s">>,
    <<"f", "r", "o", "m", " ", "o", "s">>,
    <<"i", "m", "p", "o", "r", "t", " ", "s", "y", "s">>,
    <<"f", "r", "o", "m", " ", "s", "y", "s">>,
    <<"i", "m", "p", "o", "r", "t", " ", "s", "u", "b", "p", "r", "o", "c", "e", "s", "s">>,
    <<"f", "r", "o", "m", " ", "s", "u", "b", "p", "r", "o", "c", "e", "s", "s">>,
    <<"i", "m", "p", "o", "r", "t", " ", "e", "v", "a", "l">>,
    <<"f", "r", "o", "m", " ", "e", "v", "a", "l">>,
    <<"i", "m", "p", "o", "r", "t", " ", "e", "x", "e", "c">>,
    <<"f", "r", "o", "m", " ", "e", "x", "e", "c">>,
    <<"i", "m", "p", "o", "r", "t", " ", "_", "_", "i", "m", "p", "o", "r", "t", "_", "_">>,
    <<"f", "r", "o", "m", " ", "_", "_", "i", "m", "p", "o", "r", "t", "_", "_">>,
    <<"i", "m", "p", "o", "r", "t", " ", "g", "l", "o", "b", "a", "l", "s">>,
    <<"f", "r", "o", "m", " ", "g", "l", "o", "b", "a", "l", "s">>,
    <<"i", "m", "p", "o", "r", "t", " ", "l", "o", "c", "a", "l", "s">>,
    <<"f", "r", "o", "m", " ", "l", "o", "c", "a", "l", "s">>,
    <<"i", "m", "p", "o", "r", "t", " ", "o", "p", "e", "n">>,
    <<"f", "r", "o", "m", " ", "o", "p", "e", "n">>,
    <<"i", "m", "p", "o", "r", "t", " ", "f", "i", "l", "e">>,
    <<"f", "r", "o", "m", " ", "f", "i", "l", "e">>,
    <<"i", "m", "p", "o", "r", "t", " ", "i", "n", "p", "u", "t">>,
    <<"f", "r", "o", "m", " ", "i", "n", "p", "u", "t">>,
    <<"i", "m", "p", "o", "r", "t", " ", "r", "a", "w", "_", "i", "n", "p", "u", "t">>,
    <<"f", "r", "o", "m", " ", "r", "a", "w", "_", "i", "n", "p", "u", "t">> >>

allowed_imports == <<
    <<"i", "m", "p", "o", "r", "t", " ", "t", "o", "r", "c", "h">>,
    <<"f", "r", "o", "m", " ", "t", "o", "r", "c", "h">>,
    <<"i", "m", "p", "o", "r", "t", " ", "t", "r", "a", "n", "s", "f", "o", "r", "m", "e", "r", "s">>,
    <<"f", "r", "o", "m", " ", "t", "r", "a", "n", "s", "f", "o", "r", "m", "e", "r", "s">> >>

KeywordImport == <<"i", "m", "p", "o", "r", "t">>

KeywordFrom == <<"f", "r", "o", "m">>

CodeTypes == {"tokenizer", "model", "function"}

\* HTTPException(status_code, detail)
HTTPException(status_code, detail) ==
    [raised |-> TRUE, type |-> "HTTPException", status_code |-> status_code, detail |-> detail]

\* a value returned without an exception
Returned(value) == [raised |-> FALSE, type |-> "return", status_code |-> 200, detail |-> value]

\* f"Security violation: {disallowed} is not allowed in {code_type} code"
SecurityViolation(disallowed, code_type) ==
    <<"Security violation: ">> \o disallowed \o <<" is not allowed in ", code_type, " code">>

\* f"Only 'transformers' and 'torch' imports are allowed in {code_type} code. ..."
OnlyAllowedImports(code_type) ==
    <<"Only 'transformers' and 'torch' imports are allowed in ", code_type,
      " code. Implicit imports are forbidden.">>

\* the checker with the allow-list looked at before the denylist
ValidateAllowListFirst(code, code_type) ==
    LET code_lower == Lower(code)
        hits == {i \in DOMAIN disallowed_imports : Contains(disallowed_imports[i], code_lower)}
        has_allowed_import ==
            \E i \in DOMAIN allowed_imports : Contains(allowed_imports[i], code_lower)
    IN  IF has_allowed_import
        THEN Returned(code)
        ELSE IF hits # {}
        THEN LET first == CHOOSE i \in hits : \A j \in hits : i <= j
             IN  HTTPException(400, SecurityViolation(disallowed_imports[first], code_type))
        ELSE IF Contains(KeywordImport, code_lower) \/ Contains(KeywordFrom, code_lower)
        THEN HTTPException(400, OnlyAllowedImports(code_type))
        ELSE Returned(code)

\* _validate_and_sanitize_code(code, code_type)
validate_and_sanitize_code(code, code_type) ==
    LET code_lower == Lower(code)
        hits == {i \in DOMAIN disallowed_imports : Contains(disallowed_imports[i], code_lower)}
        has_allowed_import ==
            \E i \in DOMAIN allowed_imports : Contains(allowed_imports[i], code_lower)
    IN  IF hits # {}
        THEN \* the loop raises at the first table entry found in the text
             LET first == CHOOSE i \in hits : \A j \in hits : i <= j
             IN  HTTPException(400, SecurityViolation(disallowed_imports[first], code_type))
        ELSE IF ~has_allowed_import
                /\ (Contains(KeywordImport, code_lower) \/ Contains(KeywordFrom, code_lower))
        THEN HTTPException(400, OnlyAllowedImports(code_type))
        ELSE Returned(code)

\* ------------------------------------------------------------------------
\* Fragments the admission checker is applied to
\* ------------------------------------------------------------------------

\* number of statements in a fragment
MaxPieces == 2

NewLine == <<"\n">>

StmtImportOs == <<"i", "m", "p", "o", "r", "t", " ", "o", "s">>

StmtImportSysUpper == <<"I", "m", "p", "o", "r", "t", " ", "S", "Y", "S">>

StmtFromSubprocess == <<"f", "r", "o", "m", " ", "s", "u", "b", "p", "r", "o", "c", "e", "s", "s", " ", "i", "m", "p", "o", "r", "t", " ", "r", "u", "n">>

StmtImportTorch == <<"i", "m", "p", "o", "r", "t", " ", "t", "o", "r", "c", "h">>

StmtFromTransformers == <<"f", "r", "o", "m", " ", "t", "r", "a", "n", "s", "f", "o", "r", "m", "e", "r", "s", " ", "i", "m", "p", "o", "r", "t", " ", "A", "u", "t", "o", "M", "o", "d", "e", "l">>

StmtImportNumpy == <<"i", "m", "p", "o", "r", "t", " ", "n", "u", "m", "p", "y">>

StmtAssignment == <<"x", " ", "=", " ", "1">>

StmtImportant == <<"i", "m", "p", "o", "r", "t", "a", "n", "t", " ", "=", " ", "2">>

Statements == {StmtImportOs, StmtImportSysUpper, StmtFromSubprocess, StmtImportTorch, StmtFromTransformers, StmtImportNumpy, StmtAssignment, StmtImportant}

\* the texts made of n statements, one per line
RECURSIVE TextsOf(_)
TextsOf(n) ==
    IF n = 1
    THEN Statements
    ELSE {t \o NewLine \o s : t \in TextsOf(n - 1), s \in Statements}

Fragments == UNION {TextsOf(n) : n \in 1..MaxPieces}

\* ------------------------------------------------------------------------
\* The admission checker applied to one fragment
\* ------------------------------------------------------------------------

NotChecked == [raised |-> FALSE, type |-> "none", status_code |-> 0, detail |-> <<>>]

AdmissionIdle == adm_code = <<>> /\ adm_type = "none" /\ adm_result = NotChecked

\* a caller hands one fragment to the checker
Validate ==
    /\ adm_result = NotChecked
    /\ adm_result' = validate_and_sanitize_code(adm_code, adm_type)
    /\ UNCHANGED <<adm_code, adm_type>>

\* ------------------------------------------------------------------------
\* Custom-task gateway
\* ------------------------------------------------------------------------

\* largest number of input texts of a batch request
MaxInputs == 2

\* the 'basic builtins' table of the restricted environment
SafeBuiltins == {
    "print", "len", "str", "int", "float", "list", "dict", "tuple", "set", "bool",
    "type", "isinstance", "range", "enumerate", "zip", "map", "filter", "sum", "max",
    "min", "abs", "round", "sorted", "reversed", "any", "all", "chr", "ord", "hex",
    "oct", "bin", "format", "repr", "ascii", "hash", "id", "callable", "getattr",
    "hasattr", "setattr", "delattr", "property", "super", "object", "Exception",
    "ValueError", "TypeError", "IndexError", "KeyError", "AttributeError",
    "RuntimeError", "ImportError", "NameError", "UnboundLocalError", "ZeroDivisionError",
    "OverflowError", "FloatingPointError", "AssertionError", "NotImplementedError",
    "ArithmeticError", "BufferError", "EOFError", "LookupError", "MemoryError",
    "OSError", "ReferenceError", "SyntaxError", "SystemError", "Warning", "UserWarning",
    "DeprecationWarning", "PendingDeprecationWarning", "SyntaxWarning", "RuntimeWarning",
    "FutureWarning", "ImportWarning", "UnicodeWarning", "BytesWarning", "ResourceWarning" }

\* the allowed modules and entry points
AllowedModules == {"torch", "transformers", "AutoTokenizer", "AutoModel",
                   "AutoModelForSequenceClassification", "pipeline"}

\* restricted_globals as built before the first exec
SandboxNames == SafeBuiltins \cup AllowedModules \cup {"model_id"}

\* the name each fragment has to bind
RequiredName(code_type) ==
    CASE code_type = "tokenizer" -> "tokenizer"
      [] code_type = "model"     -> "model"
      [] code_type = "function"  -> "custom_function"

\* the ValueError raised when the name is missing after the exec
MissingName(code_type) ==
    CASE code_type = "tokenizer" -> <<"Tokenizer code must assign to variable 'tokenizer'">>
      [] code_type = "model"     -> <<"Model code must assign to variable 'model'">>
      [] code_type = "function"  -> <<"Function code must define a function named 'custom_function'">>

\* texts of the fragments a request carries
GatewayTexts == {StmtAssignment, StmtImportOs, StmtImportNumpy}

\* what running a fragment does: bind the required name, bind the three
\* required names, bind nothing, raise an Exception, or raise a BaseException
\* that is not an Exception (SystemExit, KeyboardInterrupt)
Effects == {"binds", "binds_all", "nothing", "raises", "raises_base"}

\* the name a fragment of effect "binds_builtin" stores in the dictionary it
\* finds under '__builtins__', besides binding its required name
LeakedName == "leak"

\* the fragments of a request: an admissible text with each effect, and the
\* inadmissible texts (their effect is met only when the check is left out)
GatewayFragments ==
    [text : {StmtAssignment}, effect : Effects]
        \cup [text : GatewayTexts \ {StmtAssignment}, effect : {"nothing"}]

\* what custom_function does when called: return a (JSON-serializable) value,
\* return a list of len elements, raise an Exception, or raise a BaseException
ReturnsValue == [kind |-> "value", len |-> 0]

ReturnsRaise == [kind |-> "raises", len |-> 0]

ReturnsRaiseBase == [kind |-> "raises_base", len |-> 0]

\* names of the builtins module: the ones of the table and some of the others
PythonBuiltins ==
    SafeBuiltins \cup {"open", "eval", "exec", "__import__", "compile", "globals", "locals",
                       "input", "vars", "dir", "BaseException", "SystemExit",
                       "KeyboardInterrupt"}

\* the names code run by exec(code, globals) resolves: the keys of globals and,
\* through globals['__builtins__'], the names of the builtins module; exec
\* inserts that key when globals has none
Resolvable(globals) ==
    LET g == globals \cup {"__builtins__"}
    IN  g \cup builtins

ReturnsList(n) == [kind |-> "list", len |-> n]

\* CustomTaskRequest: one input text
SingleRequests ==
    [batch : {FALSE}, tokenizer_code : GatewayFragments, model_code : GatewayFragments,
     function_code : GatewayFragments,
     returns : {ReturnsValue, ReturnsRaise, ReturnsRaiseBase},
     n_inputs : {1}, model_id : Ids]

\* BatchCustomTaskRequest: a list of input texts
BatchRequests ==
    [batch : {TRUE}, tokenizer_code : GatewayFragments, model_code : GatewayFragments,
     function_code : GatewayFragments,
     returns : {ReturnsValue, ReturnsRaise, ReturnsRaiseBase}
                    \cup {ReturnsList(n) : n \in 0..MaxInputs},
     n_inputs : 0..MaxInputs, model_id : Ids]

NoRequest ==
    [batch |-> FALSE, tokenizer_code |-> [text |-> <<>>, effect |-> "nothing"],
     model_code |-> [text |-> <<>>, effect |-> "nothing"],
     function_code |-> [text |-> <<>>, effect |-> "nothing"],
     returns |-> ReturnsValue, n_inputs |-> 0, model_id |-> ""]

None == <<"None">>

\* [x] * n
Repeat(x, n) == [i \in 1..n |-> x]

NoGwResponse ==
    [kind |-> "none", status_code |-> 0, result |-> "None", error |-> None,
     results |-> <<>>, errors |-> <<>>]

\* return {"result": result, "error": error}: a 200 response with this body
CustomTaskResponse(result, error) ==
    [kind |-> "single", status_code |-> 200, result |-> result, error |-> error,
     results |-> <<>>, errors |-> <<>>]

\* return {"results": results, "errors": errors}: a 200 response with this body
BatchCustomTaskResponse(results, errors) ==
    [kind |-> "batch", status_code |-> 200, result |-> "None", error |-> None,
     results |-> results, errors |-> errors]

\* an exception leaves the handler: the caller gets no body of the handler
\* (the server answers 500 or stops)
Fault ==
    [kind |-> "fault", status_code |-> 500, result |-> "None", error |-> None,
     results |-> <<>>, errors |-> <<>>]

\* an exception other than HTTPException, with its message
Raised(type, message) == [raised |-> TRUE, type |-> type, status_code |-> 0, detail |-> message]

\* str(e): starlette's HTTPException prints "{status_code}: {detail}"
Str(e) ==
    IF e.type = "HTTPException"
    THEN <<IF e.status_code = 404 THEN "404: " ELSE "400: ">> \o e.detail
    ELSE e.detail

\* the except-branches: the failure e becomes the answer of the request
Failure(e) ==
    IF gw_request.batch
    THEN BatchCustomTaskResponse(Repeat("None", gw_request.n_inputs),
                                 Repeat(Str(e), gw_request.n_inputs))
    ELSE CustomTaskResponse("None",
            Str(HTTPException(400, <<"Custom task execution failed: ">> \o Str(e))))

Fail(e) ==
    /\ gw_response' = Failure(e)
    /\ gw_pc' = "done"

\* 'except Exception' does not catch a BaseException: it leaves the handler
Escape ==
    /\ gw_response' = Fault
    /\ gw_pc' = "done"

\* a request arrives
GwRequestIn(requests) ==
    /\ gw_pc = "idle"
    /\ \E r \in requests : gw_request' = r
    /\ gw_pc' = "validate_tokenizer"
    /\ UNCHANGED <<restricted_globals, exec_calls, fn_calls, exec_log, fn_args, visible,
                   builtins, gw_response>>

GwRequest == GwRequestIn(SingleRequests \cup BatchRequests)

\* _validate_and_sanitize_code on one fragment of the request
ValidateStep(pc, code_type, code, next) ==
    /\ gw_pc = pc
    /\ LET r == validate_and_sanitize_code(code.text, code_type)
       IN  IF r.raised
           THEN Fail(r)
           ELSE gw_pc' = next /\ UNCHANGED gw_response
    /\ UNCHANGED <<gw_request, restricted_globals, exec_calls, fn_calls, exec_log, fn_args,
                   visible, builtins>>

GwValidateTokenizer == ValidateStep("validate_tokenizer", "tokenizer", gw_request.tokenizer_code, "validate_model")

GwValidateModel == ValidateStep("validate_model", "model", gw_request.model_code, "validate_function")

\* the handler with the check of the function fragment left out
GwValidateFunctionSkipped ==
    /\ gw_pc = "validate_function"
    /\ gw_pc' = "namespace"
    /\ UNCHANGED <<gw_request, restricted_globals, exec_calls, fn_calls, exec_log, fn_args,
                   visible, builtins, gw_response>>

GwValidateFunction == ValidateStep("validate_function", "function", gw_request.function_code, "namespace")

\* restricted_globals = {...}: the restricted execution environment
GwBuildNamespace ==
    /\ gw_pc = "namespace"
    /\ restricted_globals' = SandboxNames
    /\ gw_pc' = "exec_tokenizer"
    /\ UNCHANGED <<gw_request, exec_calls, fn_calls, exec_log, fn_args, visible, builtins,
                   gw_response>>

\* exec(code, restricted_globals), then the check that the name is bound
ExecStep(pc, code_type, code, next) ==
    /\ gw_pc = pc
    /\ exec_calls' = exec_calls + 1
    /\ exec_log' = Append(exec_log, code_type)
    /\ visible' = Resolvable(restricted_globals)
    /\ IF code.effect = "raises"
       THEN /\ Fail(Raised("Exception", <<"raised by the ", code_type, " code">>))
            /\ restricted_globals' = restricted_globals \cup {"__builtins__"}
       ELSE IF code.effect = "raises_base"
       THEN /\ Escape
            /\ restricted_globals' = restricted_globals \cup {"__builtins__"}
       ELSE LET bound == CASE code.effect = "binds"         -> {RequiredName(code_type)}
                           [] code.effect = "binds_builtin" -> {RequiredName(code_type)}
                           [] code.effect = "binds_all"     -> {RequiredName(t) : t \in CodeTypes}
                           [] OTHER                         -> {}
                after == restricted_globals \cup {"__builtins__"} \cup bound
            IN  /\ restricted_globals' = after
                /\ IF RequiredName(code_type) \in after
                   THEN gw_pc' = next /\ UNCHANGED gw_response
                   ELSE Fail(Raised("ValueError", MissingName(code_type)))
    /\ builtins' = IF code.effect = "binds_builtin" THEN builtins \cup {LeakedName} ELSE builtins
    /\ UNCHANGED <<gw_request, fn_calls, fn_args>>

GwExecTokenizer == ExecStep("exec_tokenizer", "tokenizer", gw_request.tokenizer_code, "exec_model")

GwExecModel == ExecStep("exec_model", "model", gw_request.model_code, "exec_function")

GwExecFunction == ExecStep("exec_function", "function", gw_request.function_code, "invoke")

\* the answer of the single endpoint when custom_function returned
SingleResult(returns) ==
    CustomTaskResponse(IF returns.kind = "list" THEN "list" ELSE "value", None)

\* the answer of the batch endpoint when custom_function returned
BatchResult(returns) ==
    IF returns.kind # "list"
    THEN Failure(Raised("ValueError",
            <<"custom_function must return a list of results, one per input text">>))
    ELSE BatchCustomTaskResponse(Repeat("value", returns.len), Repeat(None, returns.len))

\* the handler calling custom_function once per input text
GwInvokePerElement ==
    /\ gw_pc = "invoke"
    /\ LET n == IF gw_request.batch THEN gw_request.n_inputs ELSE 1
       IN  /\ fn_calls' = fn_calls + n
           /\ fn_args' = fn_args \o Repeat("input_text", n)
    /\ gw_response' =
         IF gw_request.returns.kind = "raises"
         THEN Failure(Raised("Exception", <<"raised by custom_function">>))
         ELSE IF gw_request.returns.kind = "raises_base"
         THEN Fault
         ELSE IF gw_request.batch
         THEN BatchCustomTaskResponse(Repeat("value", gw_request.n_inputs),
                                      Repeat(None, gw_request.n_inputs))
         ELSE SingleResult(gw_request.returns)
    /\ gw_pc' = "done"
    /\ UNCHANGED <<gw_request, restricted_globals, exec_calls, exec_log, visible, builtins>>

\* custom_function(input_text) or custom_function(request.input_texts)
GwInvoke ==
    /\ gw_pc = "invoke"
    /\ fn_calls' = fn_calls + 1
    /\ fn_args' = Append(fn_args, IF gw_request.batch THEN "input_texts" ELSE "input_text")
    /\ gw_response' =
         IF gw_request.returns.kind = "raises"
         THEN Failure(Raised("Exception", <<"raised by custom_function">>))
         ELSE IF gw_request.returns.kind = "raises_base"
         THEN Fault
         ELSE IF gw_request.batch
         THEN BatchResult(gw_request.returns)
         ELSE SingleResult(gw_request.returns)
    /\ gw_pc' = "done"
    /\ UNCHANGED <<gw_request, restricted_globals, exec_calls, exec_log, visible, builtins>>

\* the response is sent; the request and its namespace are discarded
GwReturn ==
    /\ gw_pc = "done"
    /\ gw_pc' = "idle"
    /\ gw_request' = NoRequest
    /\ restricted_globals' = {}
    /\ exec_calls' = 0
    /\ fn_calls' = 0
    /\ exec_log' = <<>>
    /\ fn_args' = <<>>
    /\ visible' = {}
    /\ gw_response' = NoGwResponse
    /\ UNCHANGED builtins

GatewayIdle ==
    /\ gw_pc = "idle"
    /\ gw_request = NoRequest
    /\ restricted_globals = {}
    /\ exec_calls = 0
    /\ fn_calls = 0
    /\ exec_log = <<>>
    /\ fn_args = <<>>
    /\ visible = {}
    /\ builtins = PythonBuiltins
    /\ gw_response = NoGwResponse

\* ------------------------------------------------------------------------
\* Saved custom tasks (MongoDBManager and the /custom-tasks endpoints)
\* ------------------------------------------------------------------------

\* the ObjectIds the store generates, in the order of generation
ObjectIds == <<"65a000000000000000000001", "65a000000000000000000002">>

\* the tasks that can be created in a run
MaxTasks == Len(ObjectIds)

\* the clock readings of a run
MaxClock == 4

\* the task_id path parameters: the ObjectIds and a string that is none
TaskIdInputs == {ObjectIds[i] : i \in 1..Len(ObjectIds)} \cup {"not-an-object-id"}

\* ObjectId(task_id) raises InvalidId for a string that is not 24 hex digits
ValidObjectId(task_id) == \E i \in 1..Len(ObjectIds) : ObjectIds[i] = task_id

\* datetime.isoformat() of the clock readings
Timestamps == <<"2025-01-01T00:00:00", "2025-01-01T00:00:01", "2025-01-01T00:00:02",
                "2025-01-01T00:00:03", "2025-01-01T00:00:04">>

isoformat(t) == Timestamps[t + 1]

\* class SaveTaskRequest
SaveTaskRequests ==
    {[name |-> "sentiment", description |-> "scores a sentence", model_id |-> "a/m1",
      tokenizer_code |-> "tokenizer = x", model_code |-> "model = y",
      function_code |-> "def custom_function(text): return 1",
      tags |-> "nlp", batch_mode |-> FALSE],
     [name |-> "embed", description |-> "embeds sentences", model_id |-> "a/m2",
      tokenizer_code |-> "tokenizer = x", model_code |-> "model = y",
      function_code |-> "def custom_function(texts): return texts",
      tags |-> "None", batch_mode |-> TRUE]}

\* class CustomTask, as the handlers build it from a request
CustomTask(id, request, created_at, updated_at) ==
    [id |-> id, name |-> request.name, description |-> request.description,
     model_id |-> request.model_id, tokenizer_code |-> request.tokenizer_code,
     model_code |-> request.model_code, function_code |-> request.function_code,
     created_at |-> created_at, updated_at |-> updated_at,
     tags |-> request.tags, batch_mode |-> request.batch_mode]

\* MongoDBManager._task_to_dict: asdict(task); with an id, '_id' replaces 'id'
task_to_dict(task) ==
    IF task.id # "None" /\ task.id # ""
    THEN DictDel(DictSet(task, "_id", task.id), "id")
    ELSE task

\* MongoDBManager._dict_to_task: 'id' = str('_id')
dict_to_task(task_id, doc) == DictSet(doc, "id", task_id)

\* MongoDBManager.create_task: the document is inserted under a new ObjectId
create_task(task) ==
    LET task_dict == DictDel(task_to_dict(task), "_id")
    IN  DictSet(tasks_collection, ObjectIds[inserted + 1], task_dict)

\* MongoDBManager.get_task_by_id: the task, or None (also on any exception)
Found(task_id, db_ok) == db_ok /\ ValidObjectId(task_id) /\ task_id \in DOMAIN tasks_collection

\* update_one(filter, {"$set": task_dict}) applied to the document doc
SetFields(doc, task_dict) ==
    [f \in (DOMAIN doc) \cup (DOMAIN task_dict) |->
        IF f \in DOMAIN task_dict THEN task_dict[f] ELSE doc[f]]

\* MongoDBManager.update_task: the store after the call
update_task(task_id, task, db_ok) ==
    LET d == task_to_dict(task)
    IN  IF "_id" \in DOMAIN d /\ Found(task_id, db_ok)
        THEN [tasks_collection EXCEPT ![task_id] = SetFields(@, DictDel(d, "_id"))]
        ELSE tasks_collection

\* result.modified_count > 0; False on any exception
update_task_success(task_id, task, db_ok) ==
    update_task(task_id, task, db_ok) # tasks_collection

\* MongoDBManager.delete_task: the store after the call
delete_task(task_id, db_ok) ==
    IF Found(task_id, db_ok) THEN DictDel(tasks_collection, task_id) ELSE tasks_collection

NoTaskResponse == [op |-> "none", task_id |-> "", status_code |-> 0, detail |-> <<>>]

TaskAnswer(op, task_id, status_code, detail) ==
    [op |-> op, task_id |-> task_id, status_code |-> status_code, detail |-> detail]

\* raise HTTPException(...) inside the handler's try: 'except Exception as e'
\* catches it and raises HTTPException(400, f"{prefix}{str(e)}") in its place
CaughtAndRaised(op, task_id, prefix, e) ==
    TaskAnswer(op, task_id, 400, <<prefix>> \o Str(e))

\* POST /custom-tasks
save_custom_task(request) ==
    /\ inserted < MaxTasks
    /\ now < MaxClock
    /\ \E db_ok \in BOOLEAN :
        IF db_ok
        THEN /\ tasks_collection' =
                    create_task(CustomTask("None", request, isoformat(now), isoformat(now)))
             /\ inserted' = inserted + 1
             /\ task_response' = TaskAnswer("save", ObjectIds[inserted + 1], 200,
                                            <<"Task '", request.name, "' saved successfully">>)
        ELSE /\ UNCHANGED <<tasks_collection, inserted>>
             /\ task_response' = CaughtAndRaised("save", "", "Failed to save task: ",
                                        Raised("ServerSelectionTimeoutError", <<"connection refused">>))
    /\ now' = now + 1

\* GET /custom-tasks/{task_id}
get_custom_task(task_id) ==
    /\ \E db_ok \in BOOLEAN :
        task_response' =
            IF Found(task_id, db_ok)
            THEN TaskAnswer("get", task_id, 200,
                            <<dict_to_task(task_id, tasks_collection[task_id]).created_at>>)
            ELSE CaughtAndRaised("get", task_id, "Failed to get task: ",
                                 HTTPException(404, <<"Task not found">>))
    /\ UNCHANGED <<tasks_collection, inserted, now>>

\* PUT /custom-tasks/{task_id}
update_custom_task(task_id, request) ==
    /\ now < MaxClock
    /\ \E db_ok \in BOOLEAN :
        LET task == CustomTask(task_id, request, "", isoformat(now))
        IN  /\ tasks_collection' = update_task(task_id, task, db_ok)
            /\ task_response' =
                    IF update_task_success(task_id, task, db_ok)
                    THEN TaskAnswer("update", task_id, 200,
                                    <<"Task '", request.name, "' updated successfully">>)
                    ELSE CaughtAndRaised("update", task_id, "Failed to update task: ",
                                         HTTPException(404, <<"Task not found">>))
    /\ now' = now + 1
    /\ UNCHANGED inserted

\* DELETE /custom-tasks/{task_id}
delete_custom_task(task_id) ==
    /\ \E db_ok \in BOOLEAN :
        /\ tasks_collection' = delete_task(task_id, db_ok)
        /\ task_response' =
                IF Found(task_id, db_ok)
                THEN TaskAnswer("delete", task_id, 200, <<"Task deleted successfully">>)
                ELSE CaughtAndRaised("delete", task_id, "Failed to delete task: ",
                                     HTTPException(404, <<"Task not found">>))
    /\ UNCHANGED <<inserted, now>>

\* an empty task store
TasksIdle ==
    /\ tasks_collection = EmptyDict
    /\ inserted = 0
    /\ now = 0
    /\ task_response = NoTaskResponse

\* ------------------------------------------------------------------------
\* The lifecycle specification
\* ------------------------------------------------------------------------

InitLifecycle ==
    /\ downloaded_models = EmptyDict
    /\ loaded_models = {}
    /\ loaded_tokenizers = {}
    /\ loading_models = EmptyDict
    /\ stats_store = [loaded_models |-> 0]
    /\ cache \in SUBSET Ids
    /\ units = EmptyBag
    /\ scheduled = 0
    /\ evicted = {}
    /\ response = NoResponse

Init ==
    /\ InitLifecycle
    /\ observe = FALSE
    /\ AdmissionIdle
    /\ GatewayIdle
    /\ TasksIdle

InitObserved ==
    /\ InitLifecycle
    /\ observe = TRUE
    /\ AdmissionIdle
    /\ GatewayIdle
    /\ TasksIdle

\* no custom-task request and no admission check is under way
Rest == UNCHANGED <<admissionVars, gatewayVars, taskVars>>

Next ==
    \/ \E model_id \in RequestIds : DownloadRequest(model_id) /\ Rest
    \/ \E model_id \in RequestIds : LoadRequest(model_id) /\ Rest
    \/ \E model_id \in Ids : DeleteRequest(model_id) /\ Rest
    \/ read_root /\ Rest
    \/ Tick /\ Rest
    \/ \E u \in DOMAIN units : DownloadStart(u) /\ Rest
    \/ \E u \in DOMAIN units : DownloadFile(u) /\ Rest
    \/ \E u \in DOMAIN units : DownloadComplete(u) /\ Rest
    \/ \E u \in DOMAIN units : DownloadFromPretrained(u) /\ Rest
    \/ \E u \in DOMAIN units : DownloadStore(u) /\ Rest
    \/ \E u \in DOMAIN units : LoadStart(u) /\ Rest
    \/ \E u \in DOMAIN units : LoadTokenizer(u) /\ Rest
    \/ \E u \in DOMAIN units : LoadModel(u) /\ Rest
    \/ \E u \in DOMAIN units : LoadFinish(u) /\ Rest

Spec == Init /\ [][Next]_vars

\* the same program, with the answers and the eviction history recorded
SpecObserved == InitObserved /\ [][Next]_vars

\* a step of a background task of the given kind scheduled for id
UnitStep(kind, id) ==
    \E u \in DOMAIN units :
        /\ u.kind = kind
        /\ u.id = id
        /\ \/ DownloadStart(u) \/ DownloadFile(u) \/ DownloadComplete(u)
           \/ DownloadFromPretrained(u) \/ DownloadStore(u)
           \/ LoadStart(u) \/ LoadTokenizer(u) \/ LoadModel(u) \/ LoadFinish(u)
        /\ Rest

\* background_tasks.add_task: a task that was added is run after the response
\* and, every backend call returning, is not left waiting at a step for ever
Fairness ==
    \A kind \in {"download", "load"} : \A id \in Ids : WF_vars(UnitStep(kind, id))

\* the program with its background tasks run fairly
SpecFair == Init /\ [][Next]_vars /\ Fairness

\* the same, with the answers and the eviction history recorded
SpecObservedFair == InitObserved /\ [][Next]_vars /\ Fairness

\* ------------------------------------------------------------------------
\* The admission specification: the checker applied to every fragment
\* ------------------------------------------------------------------------

\* the registry when the ids of L were downloaded and loaded by download units
RegistryWith(L) ==
    /\ downloaded_models = [id \in L |-> [status |-> "completed", progress |-> 100,
                                          files_downloaded |-> NumFiles, total_files |-> NumFiles]]
    /\ loaded_models = L
    /\ loaded_tokenizers = L
    /\ loading_models = EmptyDict
    /\ stats_store = [loaded_models |-> Cardinality(L)]
    /\ cache = L
    /\ units = EmptyBag
    /\ scheduled = 0
    /\ evicted = {}
    /\ response = NoResponse
    /\ observe = FALSE

InitAdmission ==
    /\ RegistryWith({})
    /\ GatewayIdle
    /\ TasksIdle
    /\ adm_code \in Fragments
    /\ adm_type \in CodeTypes
    /\ adm_result = NotChecked

NextAdmission == Validate /\ UNCHANGED <<lifecycleVars, gatewayVars, taskVars>>

SpecAdmission == InitAdmission /\ [][NextAdmission]_vars

\* ------------------------------------------------------------------------
\* The gateway specification: custom-task requests against a registry
\* ------------------------------------------------------------------------

InitGateway ==
    /\ \E L \in SUBSET Ids : RegistryWith(L)
    /\ AdmissionIdle
    /\ GatewayIdle
    /\ TasksIdle

Quiet == UNCHANGED <<lifecycleVars, admissionVars, taskVars>>

NextGateway ==
    \/ GwRequest /\ Quiet
    \/ GwValidateTokenizer /\ Quiet
    \/ GwValidateModel /\ Quiet
    \/ GwValidateFunction /\ Quiet
    \/ GwBuildNamespace /\ Quiet
    \/ GwExecTokenizer /\ Quiet
    \/ GwExecModel /\ Quiet
    \/ GwExecFunction /\ Quiet
    \/ GwInvoke /\ Quiet
    \/ GwReturn /\ Quiet

SpecGateway == InitGateway /\ [][NextGateway]_vars

\* ------------------------------------------------------------------------
\* The namespace specification: calls one after the other in one process,
\* whose fragments may store names in the builtins dictionary
\* ------------------------------------------------------------------------

NamespaceFragments == [text : {StmtAssignment}, effect : {"binds", "binds_builtin", "nothing"}]

NamespaceRequests ==
    [batch : BOOLEAN, tokenizer_code : NamespaceFragments, model_code : NamespaceFragments,
     function_code : NamespaceFragments, returns : {ReturnsValue},
     n_inputs : {1}, model_id : {"a/m1"}]

InitNamespace ==
    /\ RegistryWith({"a/m1"})
    /\ AdmissionIdle
    /\ GatewayIdle
    /\ TasksIdle

NextNamespace ==
    \/ GwRequestIn(NamespaceRequests) /\ Quiet
    \/ GwValidateTokenizer /\ Quiet
    \/ GwValidateModel /\ Quiet
    \/ GwValidateFunction /\ Quiet
    \/ GwBuildNamespace /\ Quiet
    \/ GwExecTokenizer /\ Quiet
    \/ GwExecModel /\ Quiet
    \/ GwExecFunction /\ Quiet
    \/ GwInvoke /\ Quiet
    \/ GwReturn /\ Quiet

SpecNamespace == InitNamespace /\ [][NextNamespace]_vars

\* ------------------------------------------------------------------------
\* The task-store specification: the /custom-tasks endpoints on a store
\* ------------------------------------------------------------------------

InitTasks ==
    /\ RegistryWith({})
    /\ AdmissionIdle
    /\ GatewayIdle
    /\ TasksIdle

Still == UNCHANGED <<lifecycleVars, admissionVars, gatewayVars>>

NextTasks ==
    \/ \E request \in SaveTaskRequests : save_custom_task(request) /\ Still
    \/ \E task_id \in TaskIdInputs : get_custom_task(task_id) /\ Still
    \/ \E task_id \in TaskIdInputs : \E request \in SaveTaskRequests :
            update_custom_task(task_id, request) /\ Still
    \/ \E task_id \in TaskIdInputs : delete_custom_task(task_id) /\ Still

SpecTasks == InitTasks /\ [][NextTasks]_vars

\* ------------------------------------------------------------------------
\* Registry views
\* ------------------------------------------------------------------------

\* both handles are registered for id
Loaded(id) == id \in loaded_models /\ id \in loaded_tokenizers

\* downloaded_models holds a 'completed' entry for id
Downloaded(id) == id \in DOMAIN downloaded_models /\ downloaded_models[id].status = "completed"

\* the download state of id, read from downloaded_models
DownloadState(id) ==
    IF id \notin DOMAIN downloaded_models THEN "absent"
    ELSE CASE downloaded_models[id].status = "downloading" -> "downloading"
           [] downloaded_models[id].status = "completed"   -> "downloaded"
           [] downloaded_models[id].status = "failed"      -> "download_failed"

\* the load state of id, read from the handles and from loading_models
LoadState(id) ==
    IF Loaded(id) THEN "loaded"
    ELSE IF id \notin DOMAIN loading_models THEN "unloaded"
    ELSE CASE loading_models[id].status = "loading"   -> "loading"
           [] loading_models[id].status = "failed"    -> "load_failed"
           [] loading_models[id].status = "completed" -> "unloaded"

\* ------------------------------------------------------------------------
\* Claims about the lifecycle
\* ------------------------------------------------------------------------

\* C1: in every reachable state, an id whose handles are present in
\* loaded_models and loaded_tokenizers has a 'completed' entry in
\* downloaded_models (loadState = loaded implies downloadState = downloaded).
C1_LoadedImpliesDownloaded == \A id \in Ids : Loaded(id) => Downloaded(id)

\* C2: for every model id at most one background unit (download or load) is in
\* flight at any instant, pending units included.
C2_AtMostOneUnitInFlight == \A id \in Ids : NumInFlight(id) <= 1

\* C9: once an id was deleted while a unit for it was in flight, and every
\* such unit has finished (no unit was scheduled for the id since), the id is
\* in none of downloaded_models, loaded_models and loaded_tokenizers.
C9_EvictedStaysAbsent ==
    \A id \in evicted :
        NumInFlight(id) = 0 =>
            /\ id \notin DOMAIN downloaded_models
            /\ id \notin loaded_models
            /\ id \notin loaded_tokenizers

\* a step that answers 'already downloaded or is downloading' changes nothing else
AlreadyDownloadingStep ==
    (/\ response' # response
     /\ response'.op = "download"
     /\ response'.message = "already downloaded or is downloading")
        => UNCHANGED <<downloaded_models, loaded_models, loaded_tokenizers, loading_models,
                       stats_store, cache, units, scheduled>>

\* a download request for an id whose entry is 'downloading' or 'completed'
\* gets the 'already' answer
AlreadyDownloadingAnswer ==
    \A id \in Ids :
        (/\ response' # response
         /\ response'.op = "download"
         /\ response'.id = id
         /\ id \in DOMAIN downloaded_models
         /\ downloaded_models[id].status \in {"downloading", "completed"})
            => response'.message = "already downloaded or is downloading"

\* C10: a download request for an id whose entry is 'downloading' or
\* 'completed' only answers 'already downloaded or is downloading' and changes
\* no state, and however often the request is repeated while a download unit
\* is pending or running, one download unit in total is in flight for the id.
C10_DownloadIdempotent ==
    /\ [][AlreadyDownloadingStep /\ AlreadyDownloadingAnswer]_vars
    /\ [](\A id \in Ids : BagCardinality(UnitsInFlight("download", id)) <= 1)

\* the loading status of id is 'loading'
Loading(id) == id \in DOMAIN loading_models /\ loading_models[id].status = "loading"

\* a load request for an id that is loaded or loading schedules nothing and
\* changes no store
AlreadyLoadingStep ==
    \A id \in Ids :
        (LoadRequest(id) /\ (Loaded(id) \/ Loading(id)))
            => UNCHANGED <<downloaded_models, loaded_models, loaded_tokenizers, loading_models,
                           stats_store, cache, units, scheduled>>

\* C11: a load request for an id that is already loaded or whose status is
\* 'loading' schedules no load unit and changes no state, and however often
\* the request is repeated while a load unit is pending or running, one load
\* unit in total is in flight for the id.
C11_LoadIdempotent ==
    /\ [][AlreadyLoadingStep]_vars
    /\ [](\A id \in Ids : BagCardinality(UnitsInFlight("load", id)) <= 1)

\* C12: a load request for an id without a 'completed' download entry and
\* absent from the cache is answered with a 400, schedules no unit and leaves
\* downloaded_models, loaded_models, loaded_tokenizers and loading_models as
\* they were.
C12_UnavailableLoadFails ==
    [][\A id \in Ids :
        (LoadRequest(id) /\ ~Downloaded(id) /\ id \notin cache)
            => /\ response'.code = 400
               /\ UNCHANGED <<downloaded_models, loaded_models, loaded_tokenizers,
                              loading_models, units, scheduled>>]_vars

\* the step is the end of the load unit u by its except-branch
LoadUnitFailed(u) ==
    /\ u.kind = "load"
    /\ \/ (LoadTokenizer(u) \/ LoadModel(u)) /\ units' = units (-) SetToBag({u})
       \/ LoadFinish(u) /\ u.id \notin DOMAIN loading_models

\* C13: when a load unit ends by a failure of one of its steps, the loading
\* status of its id is 'failed' with the message recorded, and the id is in
\* neither loaded_models nor loaded_tokenizers.
C13_FailedLoadLeavesNoHandle ==
    [][\A u \in DOMAIN units :
        LoadUnitFailed(u)
            => /\ u.id \in DOMAIN loading_models'
               /\ loading_models'[u.id].status = "failed"
               /\ loading_models'[u.id].error_message # "None"
               /\ u.id \notin loaded_models'
               /\ u.id \notin loaded_tokenizers']_vars

\* C14: every change of the lifecycle state of an id is an edge of the state
\* machine: an id becomes loaded only from the loading state, and an id that
\* is downloaded never changes to download_failed.
C14_OnlyStateMachineEdges ==
    [][\A id \in Ids :
        /\ (LoadState(id) # "loaded" /\ LoadState(id)' = "loaded") => LoadState(id) = "loading"
        /\ DownloadState(id) = "downloaded" => DownloadState(id)' # "download_failed"]_vars

\* ------------------------------------------------------------------------
\* Claims about the admission checker
\* ------------------------------------------------------------------------

\* the lower-cased text contains an entry of the denylist table
Denylisted(code) ==
    \E i \in DOMAIN disallowed_imports : Contains(disallowed_imports[i], Lower(code))

\* the lower-cased text contains 'import' or 'from' (the import-like constructs)
HasImportConstruct(code) ==
    Contains(KeywordImport, Lower(code)) \/ Contains(KeywordFrom, Lower(code))

\* C6: every fragment whose lower-cased text contains an entry of the denylist
\* table is rejected with a 400, whatever the fragment kind and also when the
\* fragment contains an allow-listed import.
C6_DenylistedIsRejected ==
    (adm_result # NotChecked /\ Denylisted(adm_code))
        => (adm_result.raised /\ adm_result.status_code = 400)

\* a denylisted function fragment that also imports torch was rejected
C6_Witness ==
    /\ adm_result.raised
    /\ adm_type = "function"
    /\ Denylisted(adm_code)
    /\ Contains(StmtImportTorch, Lower(adm_code))

\* C7: a fragment that passes the denylist is admitted only if its imports
\* name torch or transformers and nothing else: a fragment importing another
\* module (numpy) is rejected even beside an allow-listed import, and a
\* fragment with no import-like construct is admitted.
C7_OnlyAllowListedImports ==
    (adm_result # NotChecked /\ ~Denylisted(adm_code))
        => /\ Contains(StmtImportNumpy, adm_code) => adm_result.raised
           /\ ~HasImportConstruct(adm_code) => ~adm_result.raised

\* ------------------------------------------------------------------------
\* Claims about the custom-task gateway
\* ------------------------------------------------------------------------

\* ready(id): downloaded and loaded
Ready(id) == Downloaded(id) /\ Loaded(id)

\* the admission checker rejects the fragment of the request in hand
Rejected(code_type) ==
    LET code == CASE code_type = "tokenizer" -> gw_request.tokenizer_code
                  [] code_type = "model"     -> gw_request.model_code
                  [] code_type = "function"  -> gw_request.function_code
    IN  validate_and_sanitize_code(code.text, code_type).raised

\* the message names the fragment kind
Mentions(code_type, message) == \E i \in DOMAIN message : message[i] = code_type

\* every error message handed to the caller names the fragment kind
Reports(code_type) ==
    IF gw_request.batch
    THEN \A j \in DOMAIN gw_response.errors : Mentions(code_type, gw_response.errors[j])
    ELSE Mentions(code_type, gw_response.error)

\* C3: a custom task runs only against a ready model: while a request whose
\* model_id is not downloaded-and-loaded is handled, no fragment is evaluated
\* and custom_function is not invoked.
C3_OnlyReadyModels ==
    (gw_pc # "idle" /\ ~Ready(gw_request.model_id)) => (exec_calls = 0 /\ fn_calls = 0)

\* C4: for a request (single or batch) of which some fragment is rejected by
\* the admission checker, the number of exec calls and of custom_function
\* calls is zero, whichever fragment is the rejected one.
C4_RejectedNeverEvaluated ==
    (gw_pc # "idle" /\ \E code_type \in CodeTypes : Rejected(code_type))
        => (exec_calls = 0 /\ fn_calls = 0)

\* a request whose function fragment alone is rejected was answered with a failure
C4_Witness ==
    /\ gw_pc = "done"
    /\ Rejected("function") /\ ~Rejected("tokenizer") /\ ~Rejected("model")
    /\ gw_request.tokenizer_code.effect = "binds"
    /\ exec_calls = 0
    /\ gw_response.kind = "single"
    /\ gw_response.error # None

\* C5: when the request is answered, the caller has a violation message for
\* every fragment the admission checker rejects, not only for the first one.
C5_AllViolationsReported ==
    gw_pc = "done" => \A code_type \in CodeTypes : Rejected(code_type) => Reports(code_type)

\* C8: a batch request whose custom_function returned a list of a length other
\* than len(input_texts) is answered with results all null and errors all the
\* same non-null message, both of length len(input_texts).
C8_LengthMismatchFailsBatch ==
    (/\ gw_pc = "done"
     /\ gw_request.batch
     /\ fn_calls = 1
     /\ gw_request.returns.kind = "list"
     /\ gw_request.returns.len # gw_request.n_inputs)
        => /\ gw_response.results = Repeat("None", gw_request.n_inputs)
           /\ Len(gw_response.errors) = gw_request.n_inputs
           /\ \A j \in DOMAIN gw_response.errors :
                /\ gw_response.errors[j] # None
                /\ gw_response.errors[j] = gw_response.errors[1]

\* the fragment of the request in hand for a code_type
FragmentOf(code_type) ==
    CASE code_type = "tokenizer" -> gw_request.tokenizer_code
      [] code_type = "model"     -> gw_request.model_code
      [] code_type = "function"  -> gw_request.function_code

\* the admission checker passes the three fragments of the request
Admitted == \A code_type \in CodeTypes : ~Rejected(code_type)

\* the order in which the fragments are to be evaluated
Order == <<"tokenizer", "model", "function">>

\* the k-th fragment runs without raising and its required name is bound in
\* the shared namespace after it, and so for the fragments before it
BindsUpTo(k) ==
    \A i \in 1..k :
        \/ FragmentOf(Order[i]).effect \in {"binds", "binds_all", "binds_builtin"}
        \/ /\ FragmentOf(Order[i]).effect = "nothing"
           /\ \E j \in 1..(i - 1) : FragmentOf(Order[j]).effect = "binds_all"

\* the first fragment that raises or leaves its required name unbound (0: none)
FirstFailing ==
    IF BindsUpTo(3) THEN 0 ELSE CHOOSE k \in 1..3 : ~BindsUpTo(k) /\ BindsUpTo(k - 1)

\* what the failing step raised
FailureText ==
    IF FirstFailing = 0
    THEN <<"raised by custom_function">>
    ELSE IF FragmentOf(Order[FirstFailing]).effect = "nothing"
    THEN MissingName(Order[FirstFailing])
    ELSE <<"raised by the ", Order[FirstFailing], " code">>

\* the message contains the text
Carries(text, message) ==
    \E k \in 1..(Len(message) - Len(text) + 1) :
        SubSeq(message, k, k + Len(text) - 1) = text

\* the answer tells the caller that the call failed
ReportsFailure ==
    \/ gw_response.kind = "fault"
    \/ gw_response.kind = "single" /\ gw_response.error # None
    \/ gw_response.kind = "batch" /\ \E j \in DOMAIN gw_response.errors : gw_response.errors[j] # None

\* C15: a request of which a fragment is rejected by the admission checker is
\* answered with status 400, and the message names the kind of a rejected
\* fragment.
C15_RejectionIs400 ==
    (gw_pc = "done" /\ ~Admitted)
        => /\ gw_response.status_code = 400
           /\ \E code_type \in CodeTypes : Rejected(code_type) /\ Reports(code_type)

\* C16: a single-input request that passed admission is answered either with
\* error null (custom_function returned) or with result null and an error
\* that carries the text of the failure raised by a fragment or by
\* custom_function; no failure leaves the handler.
C16_SingleFailureIsData ==
    (gw_pc = "done" /\ ~gw_request.batch /\ Admitted)
        => /\ gw_response.kind = "single"
           /\ IF FirstFailing = 0 /\ gw_request.returns.kind \in {"value", "list"}
              THEN gw_response.error = None
              ELSE /\ gw_response.result = "None"
                   /\ gw_response.error # None
                   /\ Carries(FailureText, gw_response.error)

\* the batch call fails: a rejected fragment, a fragment that raises or leaves
\* its name unbound, custom_function raising or returning no list
BatchFails ==
    \/ ~Admitted
    \/ FirstFailing # 0
    \/ gw_request.returns.kind # "list"

\* C17: a batch request that fails is answered with results and errors of
\* length len(input_texts), every result null and every error the same
\* non-null message.
C17_BatchFailsWhole ==
    (gw_pc = "done" /\ gw_request.batch /\ BatchFails)
        => /\ gw_response.kind = "batch"
           /\ gw_response.results = Repeat("None", gw_request.n_inputs)
           /\ Len(gw_response.errors) = gw_request.n_inputs
           /\ \A j \in DOMAIN gw_response.errors :
                /\ gw_response.errors[j] # None
                /\ gw_response.errors[j] = gw_response.errors[1]

\* C18: the fragments are evaluated in the order tokenizer, model, function;
\* when a fragment raises or leaves its required name unbound, no later
\* fragment is evaluated, custom_function is not called and the answer
\* reports a failure.
C18_StrictOrder ==
    /\ Len(exec_log) <= 3
    /\ exec_log = SubSeq(Order, 1, Len(exec_log))
    /\ fn_calls > 0 => exec_log = Order
    /\ (gw_pc = "done" /\ Admitted /\ FirstFailing # 0)
            => /\ exec_log = SubSeq(Order, 1, FirstFailing)
               /\ fn_calls = 0
               /\ ReportsFailure

\* C19: a call that passes admission and the three binding checks calls
\* custom_function once, with the input string (single) or with the whole
\* list of input strings (batch); every other call never calls it.
C19_InvokedExactlyOnce ==
    /\ fn_calls <= 1
    /\ gw_pc = "done" =>
            IF Admitted /\ FirstFailing = 0
            THEN /\ fn_calls = 1
                 /\ fn_args = <<IF gw_request.batch THEN "input_texts" ELSE "input_text">>
            ELSE fn_calls = 0 /\ fn_args = <<>>

\* a batch request with two input texts was answered after one call of
\* custom_function
C19_Witness ==
    /\ gw_pc = "done"
    /\ gw_request.batch
    /\ gw_request.n_inputs = 2
    /\ Admitted /\ FirstFailing = 0
    /\ fn_args = <<"input_texts">>

\* C20: when the first fragment of a call is evaluated, the names it can
\* resolve are the ones of the restricted environment and no other.
C20_NamespaceIsTheTable ==
    exec_log = <<"tokenizer">> => visible = SandboxNames

\* C21: every call starts from a fresh namespace: whatever calls ran before,
\* the names the first fragment of a call can resolve are the ones a call
\* resolves in a fresh process; no name bound by an earlier call is among them.
C21_FreshNamespacePerCall ==
    exec_log = <<"tokenizer">>
        => visible = SandboxNames \cup {"__builtins__"} \cup PythonBuiltins

\* the step is the end of the download unit u by a failure of a backend call
\* (list_repo_files or from_pretrained)
DownloadUnitFailed(u) ==
    /\ u.kind = "download"
    /\ DownloadStart(u) \/ DownloadFromPretrained(u)
    /\ units' = units (-) SetToBag({u})

\* the entry is in the failed state and carries a failure message
FailedWithMessage(entries, id) ==
    /\ id \in DOMAIN entries
    /\ entries[id].status = "failed"
    /\ "error_message" \in DOMAIN entries[id]
    /\ entries[id].error_message # "None"

\* C22: when a backend call fails inside a download unit or a load unit, the
\* unit ends with the entry of its id in the failed state, carrying the
\* failure message; and a message is present only on entries in a failed state.
C22_BackendFailureAbsorbed ==
    [][/\ \A u \in DOMAIN units :
            /\ DownloadUnitFailed(u) => FailedWithMessage(downloaded_models', u.id)
            /\ LoadUnitFailed(u) => FailedWithMessage(loading_models', u.id)
       /\ \A id \in DOMAIN loading_models' :
            loading_models'[id].error_message # "None" => loading_models'[id].status = "failed"]_vars

\* the entries a housekeeping pass has to keep: the ones with status 'loading'
\* and the ones whose timestamp is not more than an hour old
KeptByCleanup == {id \in DOMAIN loading_models :
                    loading_models[id].status = "loading" \/ ~loading_models[id].old}

\* C23: the health-check request removes from loading_models the 'completed'
\* and 'failed' entries whose timestamp is more than an hour old and keeps
\* every other entry as it is; no other step removes an entry.
C23_CleanupExact ==
    [][/\ read_root =>
            /\ DOMAIN loading_models' = KeptByCleanup
            /\ \A id \in KeptByCleanup : loading_models'[id] = loading_models[id]
       /\ (\E id \in DOMAIN loading_models : id \notin DOMAIN loading_models') => read_root]_vars

\* the health check has pruned the entry of a/m1, loaded by a load unit, and
\* kept the entry of a/m2, as old but still 'loading'
C23_Witness ==
    /\ response.op = "root"
    /\ "a/m1" \in loaded_models
    /\ "a/m1" \notin DOMAIN downloaded_models
    /\ "a/m1" \notin DOMAIN loading_models
    /\ "a/m2" \in DOMAIN loading_models
    /\ loading_models["a/m2"].status = "loading"
    /\ loading_models["a/m2"].old

\* the step is a request for id, or a step of a background unit of id
StepFor(id) ==
    \/ DownloadRequest(id)
    \/ LoadRequest(id)
    \/ DeleteRequest(id)
    \/ \E u \in DOMAIN units :
            /\ u.id = id
            /\ \/ DownloadStart(u) \/ DownloadFile(u) \/ DownloadComplete(u)
               \/ DownloadFromPretrained(u) \/ DownloadStore(u)
               \/ LoadStart(u) \/ LoadTokenizer(u) \/ LoadModel(u) \/ LoadFinish(u)

\* what the four stores hold for id
EntriesOf(id) ==
    <<IF id \in DOMAIN downloaded_models THEN <<downloaded_models[id]>> ELSE <<>>,
      id \in loaded_models,
      id \in loaded_tokenizers,
      IF id \in DOMAIN loading_models THEN <<loading_models[id]>> ELSE <<>> >>

\* C24: a download, load or delete request for an id A, and a step of a
\* background unit of A, leave what downloaded_models, loaded_models,
\* loaded_tokenizers and loading_models hold for every other id B unchanged.
C24_OtherIdsUntouched ==
    [][\A A \in Ids : StepFor(A) => \A B \in Ids \ {A} : EntriesOf(B)' = EntriesOf(B)]_vars

\* a/m1 has just been deleted while a/m2 is downloaded and loaded
C24_Witness ==
    /\ response = Answer("delete", "a/m1", 200, "Deleted")
    /\ Downloaded("a/m2")
    /\ Loaded("a/m2")

\* a background task of the kind is in flight for id
InFlight(kind, id) == BagCardinality(UnitsInFlight(kind, id)) > 0

\* no entry stays 'downloading' or 'loading' for ever
C25_NoEntryStuck ==
    \A id \in Ids :
        /\ (DownloadState(id) = "downloading") ~> (DownloadState(id) # "downloading")
        /\ Loading(id) ~> ~Loading(id)

\* C25: with the backend calls returning and the units run fairly, every
\* download unit eventually leaves its id 'completed' or 'failed' (or absent
\* after a delete), and every load unit eventually leaves the loading status
\* 'completed' or 'failed'. A delete of the id while a unit is in flight
\* (id \in evicted) is taken as the delete of the exception.
C25_UnitsSettle ==
    \A id \in Ids :
        /\ InFlight("download", id) ~>
                \/ id \in evicted
                \/ /\ ~InFlight("download", id)
                   /\ DownloadState(id) \in {"downloaded", "download_failed"}
        /\ InFlight("load", id) ~>
                /\ ~InFlight("load", id)
                /\ id \in DOMAIN loading_models
                /\ loading_models[id].status \in {"completed", "failed"}

\* the request is for a task_id under which the store holds no task
NoSuchTask(task_id) == ~(ValidObjectId(task_id) /\ task_id \in DOMAIN tasks_collection)

\* C26: getting, updating or deleting a saved task by an id that does not
\* exist in the task store yields 404 'Task not found'.
C26_MissingTaskIs404 ==
    [][\A task_id \in TaskIdInputs :
          (/\ NoSuchTask(task_id)
           /\ \/ get_custom_task(task_id)
              \/ delete_custom_task(task_id)
              \/ \E request \in SaveTaskRequests : update_custom_task(task_id, request))
          => /\ task_response'.status_code = 404
             /\ task_response'.detail = <<"Task not found">>]_vars

\* the fields of a stored task other than its id and its two timestamps
RequestFields == {"name", "description", "model_id", "tokenizer_code", "model_code",
                  "function_code", "tags", "batch_mode"}

\* C27: after a successful update of an existing saved task the stored task
\* has the created_at it had before, and the other fields are the request's.
C27_UpdateKeepsCreatedAt ==
    [][\A task_id \in DOMAIN tasks_collection : \A request \in SaveTaskRequests :
          (update_custom_task(task_id, request) /\ task_response'.status_code = 200)
          => /\ tasks_collection'[task_id].created_at = tasks_collection[task_id].created_at
             /\ \A f \in RequestFields : tasks_collection'[task_id][f] = request[f]]_vars

\* C28: a download entry has status 'completed', with progress 100 and
\* files_downloaded = total_files, only if the download unit that wrote it
\* fetched every file of the repository.
C28_CompletedOnlyIfAllFetched ==
    [][\A u \in DOMAIN units :
          (/\ DownloadComplete(u)
           /\ u.id \in DOMAIN downloaded_models'
           /\ downloaded_models'[u.id].status = "completed")
          => u.files_downloaded = NumFiles]_vars

\* C29: whenever no background unit is in flight, stats_store['loaded_models']
\* is the number of ids in loaded_models; the counter is never negative.
C29_CounterMatchesLoaded ==
    /\ stats_store.loaded_models >= 0
    /\ units = EmptyBag => stats_store.loaded_models = Cardinality(loaded_models)

\* C30: a delete request answered 404 'Model not found in memory or cache'
\* leaves downloaded_models, loaded_models, loaded_tokenizers and the
\* loaded-models counter as they were.
C30_NotFoundChangesNothing ==
    [][\A model_id \in Ids :
          (/\ DeleteRequest(model_id)
           /\ response' = Answer("delete", model_id, 404, "Model not found in memory or cache"))
          => UNCHANGED <<downloaded_models, loaded_models, loaded_tokenizers, stats_store>>]_vars

====
